---- MODULE Spec2Model ----
(***************************************************************************)
(* Session registry and statement/batch handlers of the sqflite host-side  *)
(* plugin (package sqflite, plugin.go).  The repository holds two variants *)
(* of the plugin: the database/sql one (maps databases and databasePaths,  *)
(* int32 counter) and the older xorm one (map databases, int counter).     *)
(* Definitions of the older variant carry the prefix V1_.                  *)
(*                                                                         *)
(* Every handler runs on the goroutine of the invocation that called it;   *)
(* a process of the model is one such goroutine and pc[p] is its position  *)
(* inside the handler.  sync.Mutex is the variable mutex.                  *)
(***************************************************************************)
EXTENDS Integers, Sequences, FiniteSets, TLC

\* ------------------------------------------------------------------ bounds
NumProcs == 2
MaxCalls == 3
MaxOpens == 3
MaxRows == 2
MaxBatch == 3
MaxArgs == 2

Procs == 1..NumProcs

\* ------------------------------------------------------- program constants
Int32Max == 2147483647
Int32Min == -Int32Max - 1
MEMORY_DATABASE_PATH == <<":memory:">>
METHOD_INSERT == "insert"
METHOD_EXECUTE == "execute"
METHOD_QUERY == "query"
METHOD_UPDATE == "update"
METHOD_BATCH == "batch"
METHOD_OPEN_DATABASE == "openDatabase"
METHOD_CLOSE_DATABASE == "closeDatabase"

\* --------------------------------------------------------------- variables
VARIABLES
    databases,      \* p.databases: handle -> connection (index into engines)
    databasePaths,  \* p.databasePaths: handle -> dbpath
    databaseId,     \* p.databaseId
    mutex,          \* the embedded sync.Mutex: 0 when free, else the holder
    engines,        \* every *sql.DB ever returned by sql.Open: [path, closed]
    store,          \* the database files: file -> [tbl, rows]
    pc,             \* position of each invocation goroutine
    call,           \* arguments of the invocation in progress (or last one)
    loc,            \* local variables of the handler in progress
    reply,          \* (reply, err) of the last finished invocation
    ncalls,         \* number of invocations begun
    nopens,         \* number of openDatabase invocations begun
    opens,          \* history: the successful openDatabase replies, in order
    closedH         \* history: handles whose closeDatabase has returned

vars == <<databases, databasePaths, databaseId, mutex, engines, store, pc,
          call, loc, reply, ncalls, nopens, opens, closedH>>

\* ------------------------------------------------------------ Go map, int32
EmptyMap == [x \in {} |-> 0]

MapPut(m, k, v) == [x \in (DOMAIN m) \cup {k} |-> IF x = k THEN v ELSE m[x]]

MapDelete(m, k) == [x \in (DOMAIN m) \ {k} |-> m[x]]

\* p.databaseId++ on an int32
Inc32(x) == IF x = Int32Max THEN Int32Min ELSE x + 1

\* ------------------------------------------------------------------ strings
\* A dbpath is a sequence of tokens; "?", "&" and "_key=" are the tokens the
\* code looks for, every other token is some non-empty text without them.
PathA == <<"a.db", "?", "_key=", "k">>
PathB == <<"b.db", "?", "_key=", "k">>
PathNoParams == <<"a.db">>
PathNoKey == <<"a.db", "?", "_key=">>
PathEmpty == <<>>

Paths == {PathA, PathB, PathNoParams, PathNoKey, PathEmpty, MEMORY_DATABASE_PATH}

RECURSIVE Split(_, _)
\* strings.Split(s, sep): the pieces of s between the occurrences of sep
Split(s, sep) ==
    IF \A i \in 1..Len(s) : s[i] # sep
    THEN <<s>>
    ELSE LET i == CHOOSE k \in 1..Len(s) :
                      s[k] = sep /\ \A j \in 1..(k - 1) : s[j] # sep
         IN <<SubSeq(s, 1, i - 1)>> \o Split(SubSeq(s, i + 1, Len(s)), sep)

\* the loop over chunks: the first chunk that starts with "_key=" decides
KeyFound(chunks) ==
    LET hits == {i \in 1..Len(chunks) :
                    Len(chunks[i]) > 0 /\ chunks[i][1] = "_key="}
    IN IF hits = {} THEN FALSE
       ELSE LET i == CHOOSE k \in hits : \A j \in hits : k <= j
            IN Len(chunks[i]) > 1

NoErr == ""

\* the validation of dbpath in handleOpenDatabase: the error, or NoErr
PathError(dbpath) ==
    IF dbpath = <<>> THEN "dbpath is empty"
    ELSE IF Len(Split(dbpath, "?")) # 2 THEN "db parameters are missing"
    ELSE IF ~KeyFound(Split(Split(dbpath, "?")[2], "&")) THEN "db key is missing"
    ELSE NoErr

\* the database file a dbpath names (chunks[0] of the split on "?")
FileOf(dbpath) == Split(dbpath, "?")[1]

Files == {FileOf(PathA), FileOf(PathB)}

\* ----------------------------------------------------------------- requests
\* A request is the generic map the transport hands to a handler; keys is the
\* set of parameter names present in it.
SqlValue(t, v) == [t |-> t, v |-> v]
NullV == SqlValue("null", "")
Int42 == SqlValue("int", "42")
\* a []byte value and the string value string(b) of the same bytes
Blob == SqlValue("blob", "x")
Text == SqlValue("text", "x")

\* the value under PARAM_ID: an int32, a value of another type, or no key
IdInt32(n) == [k |-> "int32", v |-> n]
IdOther == [k |-> "other", v |-> 0]

\* the value under PARAM_SQL_ARGUMENTS
ArgList(items) == [k |-> "list", items |-> items]
ArgNull == [k |-> "null", items |-> <<>>]
ArgOther == [k |-> "other", items |-> <<>>]

NoRequest ==
    [op |-> "", keys |-> {}, id |-> IdOther, path |-> <<>>,
     singleInstance |-> FALSE, sql |-> "", arguments |-> ArgNull,
     operations |-> <<>>, noResult |-> FALSE, continueOnError |-> FALSE]

\* one operation of a batch: a map with "method", "sql" and "arguments"
Operation(method, sql) ==
    [keys |-> {"method", "sql", "arguments"}, method |-> method, sql |-> sql,
     arguments |-> ArgList(<<Int42>>)]

OpSet ==
    { Operation(METHOD_EXECUTE, "CREATE"), Operation(METHOD_INSERT, "INSERT"),
      Operation(METHOD_QUERY, "SELECT"), Operation(METHOD_UPDATE, "BAD") }

\* operations getSqlCommand cannot translate: no PARAM_SQL, or an empty one
OpNoSql == [Operation(METHOD_INSERT, "") EXCEPT !.keys = {"method", "arguments"}]
OpEmptySql == Operation(METHOD_EXECUTE, "")

\* batches with such an operation first, in the middle and after a failure
BadSqlBatches ==
    { <<OpNoSql>>, <<OpEmptySql, Operation(METHOD_EXECUTE, "CREATE")>>,
      <<Operation(METHOD_EXECUTE, "CREATE"), OpNoSql,
        Operation(METHOD_INSERT, "INSERT")>>,
      <<Operation(METHOD_EXECUTE, "CREATE"), OpEmptySql,
        Operation(METHOD_INSERT, "INSERT")>> }

\* an insert of one given value
OpInsert(v) ==
    [Operation(METHOD_INSERT, "INSERT") EXCEPT !.arguments = ArgList(<<v>>)]

\* batches that fill the table with a []byte, a nil and an integer value
ValueBatches ==
    { <<Operation(METHOD_EXECUTE, "CREATE"), OpInsert(Blob), OpInsert(NullV)>>,
      <<Operation(METHOD_EXECUTE, "CREATE"), OpInsert(Int42), OpInsert(Blob)>> }

SeqsUpTo(S, n) == UNION {[1..k -> S] : k \in 0..n}

Batches == SeqsUpTo(OpSet, MaxBatch)

\* the requests of each method, over given sets of inputs
OpenRequests(paths) ==
    {[NoRequest EXCEPT !.op = METHOD_OPEN_DATABASE,
                       !.keys = {"path", "singleInstance"},
                       !.path = d, !.singleInstance = si] :
        d \in paths, si \in BOOLEAN}

CloseRequests(ids) ==
    {[NoRequest EXCEPT !.op = METHOD_CLOSE_DATABASE, !.keys = {"id"}, !.id = i] :
        i \in ids}

\* a closeDatabase whose arguments hold no PARAM_ID
CloseNoId == [NoRequest EXCEPT !.op = METHOD_CLOSE_DATABASE]

StatementRequests(statements, ids, arguments) ==
    {[NoRequest EXCEPT !.op = m[1], !.keys = {"id", "sql", "arguments"},
                       !.id = i, !.sql = m[2], !.arguments = a] :
        m \in statements, i \in ids, a \in arguments}

BatchRequests(batches, ids) ==
    {[NoRequest EXCEPT !.op = METHOD_BATCH,
                       !.keys = {"id", "operations", "noResult", "continueOnError"},
                       !.id = i, !.operations = b, !.noResult = nr,
                       !.continueOnError = ce] :
        i \in ids, b \in batches, nr \in BOOLEAN, ce \in BOOLEAN}

Statements ==
    { <<METHOD_EXECUTE, "CREATE">>, <<METHOD_INSERT, "INSERT">>,
      <<METHOD_UPDATE, "UPDATE">>, <<METHOD_QUERY, "SELECT">>,
      <<METHOD_EXECUTE, "BAD">>, <<METHOD_INSERT, "BAD">>,
      <<METHOD_UPDATE, "BAD">>, <<METHOD_QUERY, "BAD">> }

\* ------------------------------------------------------------------ replies
Nil == [kind |-> "nil"]
IntReply(n) == [kind |-> "int", n |-> n]
OpenReply(id, recovered) == [kind |-> "map", id |-> id, recovered |-> recovered]
ResultSet(columns, rows) == [kind |-> "resultset", columns |-> columns, rows |-> rows]
ListReply(items) == [kind |-> "list", items |-> items]
PathReply == [kind |-> "string"]

Reply(value, err) == [value |-> value, err |-> err]

NoReply == Reply(Nil, NoErr)

\* -------------------------------------------------------------- the engine
\* database/sql and the sqlite driver, at the interface the handlers use.
\* A database file holds at most the table t with one column v.
EmptyFile == [tbl |-> FALSE, rows |-> <<>>]

ExecOk(file, lastInsertId, rowsAffected) ==
    [err |-> NoErr, file |-> file, lastInsertId |-> lastInsertId,
     rowsAffected |-> rowsAffected]

ExecFail(file, msg) ==
    [err |-> msg, file |-> file, lastInsertId |-> 0, rowsAffected |-> 0]

Bound(xargs) == IF xargs = <<>> THEN NullV ELSE xargs[1]

\* the effect of one statement on a database file, and its sql.Result
Statement(file, sqlStr, xargs) ==
    CASE sqlStr = "CREATE" ->
            IF file.tbl THEN ExecFail(file, "table t already exists")
            ELSE ExecOk([tbl |-> TRUE, rows |-> <<>>], 0, 0)
      [] sqlStr = "INSERT" ->
            IF ~file.tbl THEN ExecFail(file, "no such table: t")
            ELSE IF Len(file.rows) >= MaxRows
                 THEN ExecFail(file, "database or disk is full")
                 ELSE ExecOk([file EXCEPT !.rows = Append(@, Bound(xargs))],
                             Len(file.rows) + 1, 1)
      [] sqlStr = "UPDATE" ->
            IF ~file.tbl THEN ExecFail(file, "no such table: t")
            ELSE ExecOk([file EXCEPT !.rows = [i \in 1..Len(@) |-> Bound(xargs)]],
                        0, Len(file.rows))
      [] sqlStr = "SELECT" ->
            IF ~file.tbl THEN ExecFail(file, "no such table: t")
            ELSE ExecOk(file, 0, 0)
      [] OTHER -> ExecFail(file, "syntax error")

\* db.Exec(sqlStr, args...) on connection db
Exec(db, sqlStr, xargs) ==
    LET f == FileOf(engines[db].path)
    IN IF engines[db].closed
       THEN ExecFail(store[f], "sql: database is closed")
       ELSE Statement(store[f], sqlStr, xargs)

\* the SELECT of the model is SELECT v, typeof(v) FROM t
Columns == <<"v", "typeof(v)">>

\* the rows of that SELECT over a database file, in rowid order
Cursor(file) ==
    [i \in 1..Len(file.rows) |-> <<file.rows[i], SqlValue("text", file.rows[i].t)>>]

\* db.Query(sqlStr, args...): the error, or a cursor over the rows
Query(db, sqlStr, xargs) ==
    LET r == Exec(db, sqlStr, xargs)
    IN [err |-> r.err, file |-> r.file, columns |-> Columns,
        rows |-> IF r.err = NoErr /\ sqlStr = "SELECT" THEN Cursor(r.file) ELSE <<>>]

\* ------------------------------------------------------------ invocations
LocInit ==
    [id |-> 0, db |-> 0, singleInstance |-> FALSE, engine |-> 0, err |-> NoErr,
     idx |-> 0, created |-> FALSE, closedBefore |-> FALSE, executed |-> <<>>,
     engineErrs |-> <<>>, results |-> <<>>, pre |-> {}, cursor |-> <<>>,
     openRows |-> 0,
     store0 |-> [f \in Files |-> EmptyFile]]

\* a handler returns (value, err) to the transport
Return(p, value, err) ==
    /\ pc' = [pc EXCEPT ![p] = "done"]
    /\ reply' = [reply EXCEPT ![p] = Reply(value, err)]

\* the request's value under a key, or the zero value when the key is absent
ArgPath(r) == IF "path" \in r.keys THEN r.path ELSE <<>>
ArgSingleInstance(r) == "singleInstance" \in r.keys /\ r.singleInstance

\* history: the handles that earlier successful single-instance opens of the
\* path of request r have returned
OpenedSingle(r) ==
    {opens[i].id : i \in {j \in 1..Len(opens) :
                            opens[j].singleInstance /\ opens[j].path = ArgPath(r)}}

Entry(op) == IF op = METHOD_OPEN_DATABASE THEN "open_args" ELSE "getDatabase"

\* the transport delivers one method call to the handler registered for it
Begin(p, r, entry) ==
    /\ ncalls < MaxCalls
    /\ r.op = METHOD_OPEN_DATABASE => nopens < MaxOpens
    /\ call' = [call EXCEPT ![p] = r]
    /\ loc' = [loc EXCEPT ![p] = [LocInit EXCEPT !.pre = OpenedSingle(r)]]
    /\ pc' = [pc EXCEPT ![p] = entry]
    /\ nopens' = IF r.op = METHOD_OPEN_DATABASE THEN nopens + 1 ELSE nopens
    /\ ncalls' = ncalls + 1
    /\ reply' = [reply EXCEPT ![p] = NoReply]
    /\ UNCHANGED <<databases, databasePaths, databaseId, mutex, engines, store,
                   opens, closedH>>

Invoke(p, requests) ==
    /\ pc[p] \in {"idle", "done"}
    /\ \E r \in requests : Begin(p, r, Entry(r.op))

\* ------------------------------------------------------------- sync.Mutex
Lock(p) == mutex = 0 /\ mutex' = p

Unlock(p) == mutex' = 0

\* ------------------------------------------------------ handleOpenDatabase
\* the argument checks, the flags and os.MkdirAll
handleOpenDatabase_args(p) ==
    /\ pc[p] = "open_args"
    /\ LET dbpath == ArgPath(call[p])
           si == ArgSingleInstance(call[p]) /\ MEMORY_DATABASE_PATH # dbpath
       IN IF PathError(dbpath) # NoErr
          THEN Return(p, Nil, PathError(dbpath)) /\ UNCHANGED loc
          ELSE \E mkdirErr \in
                    IF MEMORY_DATABASE_PATH # dbpath THEN {NoErr, "mkdir failed"}
                                                     ELSE {NoErr} :
                  IF mkdirErr # NoErr
                  THEN Return(p, Nil, mkdirErr) /\ UNCHANGED loc
                  ELSE /\ loc' = [loc EXCEPT ![p].singleInstance = si]
                       /\ pc' = [pc EXCEPT ![p] =
                                   IF si THEN "getDatabaseByPath" ELSE "sql_open"]
                       /\ UNCHANGED reply
    /\ UNCHANGED <<databases, databasePaths, databaseId, mutex, engines, store,
                   call, ncalls, nopens, opens, closedH>>

\* getDatabaseByPath up to p.Lock()
getDatabaseByPath_lock(p) ==
    /\ pc[p] = "getDatabaseByPath"
    /\ IF ArgPath(call[p]) = MEMORY_DATABASE_PATH
       THEN pc' = [pc EXCEPT ![p] = "sql_open"] /\ UNCHANGED mutex
       ELSE Lock(p) /\ pc' = [pc EXCEPT ![p] = "bypath_scan"]
    /\ UNCHANGED <<databases, databasePaths, databaseId, engines, store, call,
                   loc, reply, ncalls, nopens, opens, closedH>>

\* the ids the range over p.databasePaths can stop at (Go fixes no map order)
PathMatches(dbPath) == {id \in DOMAIN databasePaths : databasePaths[id] = dbPath}

OpenRecord(p, id, recovered) ==
    [id |-> id, recovered |-> recovered, path |-> ArgPath(call[p]),
     singleInstance |-> ArgSingleInstance(call[p]), created |-> loc[p].created,
     proc |-> p]

\* the scan of getDatabaseByPath, its deferred Unlock, and the recovered reply
getDatabaseByPath_scan(p) ==
    /\ pc[p] = "bypath_scan"
    /\ Unlock(p)
    /\ IF PathMatches(ArgPath(call[p])) = {}
       THEN /\ pc' = [pc EXCEPT ![p] = "sql_open"]
            /\ UNCHANGED <<reply, opens>>
       ELSE \E dbId \in PathMatches(ArgPath(call[p])) :
               /\ Return(p, OpenReply(dbId, TRUE), NoErr)
               /\ opens' = Append(opens, OpenRecord(p, dbId, TRUE))
    /\ UNCHANGED <<databases, databasePaths, databaseId, engines, store, call,
                   loc, ncalls, nopens, closedH>>

\* sql.Open("sqlite3", dbpath)
handleOpenDatabase_sqlOpen(p) ==
    /\ pc[p] = "sql_open"
    /\ \E ok \in BOOLEAN :
          IF ok
          THEN /\ engines' = Append(engines, [path |-> ArgPath(call[p]),
                                              closed |-> FALSE])
               /\ loc' = [loc EXCEPT ![p].engine = Len(engines) + 1]
               /\ pc' = [pc EXCEPT ![p] = "open_lock"]
               /\ UNCHANGED reply
          ELSE /\ Return(p, Nil, "open failed")
               /\ UNCHANGED <<engines, loc>>
    /\ UNCHANGED <<databases, databasePaths, databaseId, mutex, store, call,
                   ncalls, nopens, opens, closedH>>

\* p.Lock()
handleOpenDatabase_lock(p) ==
    /\ pc[p] = "open_lock"
    /\ Lock(p)
    /\ pc' = [pc EXCEPT ![p] = "open_inc"]
    /\ UNCHANGED <<databases, databasePaths, databaseId, engines, store, call,
                   loc, reply, ncalls, nopens, opens, closedH>>

\* mutant: the counter is not advanced before the entry is stored
Mut_handleOpenDatabase_inc(p) ==
    /\ pc[p] = "open_inc"
    /\ pc' = [pc EXCEPT ![p] = "open_put_db"]
    /\ UNCHANGED <<databases, databasePaths, databaseId, mutex, engines, store,
                   call, loc, reply, ncalls, nopens, opens, closedH>>

\* p.databaseId++
handleOpenDatabase_inc(p) ==
    /\ pc[p] = "open_inc"
    /\ databaseId' = Inc32(databaseId)
    /\ pc' = [pc EXCEPT ![p] = "open_put_db"]
    /\ UNCHANGED <<databases, databasePaths, mutex, engines, store, call, loc,
                   reply, ncalls, nopens, opens, closedH>>

\* p.databases[p.databaseId] = engine
handleOpenDatabase_putDb(p) ==
    /\ pc[p] = "open_put_db"
    /\ databases' = MapPut(databases, databaseId, loc[p].engine)
    /\ loc' = [loc EXCEPT ![p].created = databaseId \notin DOMAIN databases]
    /\ pc' = [pc EXCEPT ![p] = "open_put_path"]
    /\ UNCHANGED <<databasePaths, databaseId, mutex, engines, store, call,
                   reply, ncalls, nopens, opens, closedH>>

\* mutant: openDatabase returns without releasing the lock
Mut_handleOpenDatabase_putPath(p) ==
    /\ pc[p] = "open_put_path"
    /\ databasePaths' = MapPut(databasePaths, databaseId, ArgPath(call[p]))
    /\ Return(p, OpenReply(databaseId, FALSE), NoErr)
    /\ opens' = Append(opens, OpenRecord(p, databaseId, FALSE))
    /\ UNCHANGED <<databases, databaseId, mutex, engines, store, call, loc,
                   ncalls, nopens, closedH>>

\* p.databasePaths[p.databaseId] = dbpath, the reply and the deferred Unlock
handleOpenDatabase_putPath(p) ==
    /\ pc[p] = "open_put_path"
    /\ databasePaths' = MapPut(databasePaths, databaseId, ArgPath(call[p]))
    /\ Return(p, OpenReply(databaseId, FALSE), NoErr)
    /\ Unlock(p)
    /\ opens' = Append(opens, OpenRecord(p, databaseId, FALSE))
    /\ UNCHANGED <<databases, databaseId, engines, store, call, loc, ncalls,
                   nopens, closedH>>

\* -------------------------------------------------------------- getDatabase
\* mutant: a failed getDatabase is not reported to the caller
Mut_GetFailed(p, err) == Return(p, Nil, NoErr)

\* what a handler returns when getDatabase fails
GetFailed(p, err) ==
    Return(p, IF call[p].op = METHOD_UPDATE THEN IntReply(0) ELSE Nil, err)

\* where a handler goes on after getDatabase
AfterGet(op) ==
    CASE op = METHOD_CLOSE_DATABASE -> "close_db"
      [] op = METHOD_BATCH -> "batch_args"
      [] OTHER -> op

\* getDatabase up to p.Lock()
getDatabase_enter(p) ==
    /\ pc[p] = "getDatabase"
    /\ IF "id" \in call[p].keys
       THEN Lock(p) /\ pc' = [pc EXCEPT ![p] = "get_lookup"] /\ UNCHANGED reply
       ELSE GetFailed(p, "invalid database") /\ UNCHANGED mutex
    /\ UNCHANGED <<databases, databasePaths, databaseId, engines, store, call,
                   loc, ncalls, nopens, opens, closedH>>

\* mutant: getDatabase returns without releasing the lock
Mut_getDatabase_lookup(p) ==
    /\ pc[p] = "get_lookup"
    /\ LET dbId == call[p].id
       IN IF dbId.k # "int32"
          THEN GetFailed(p, "Invaid db id") /\ UNCHANGED loc
          ELSE IF dbId.v \in DOMAIN databases
          THEN /\ loc' = [loc EXCEPT ![p].id = dbId.v,
                                     ![p].db = databases[dbId.v],
                                     ![p].closedBefore = dbId.v \in closedH]
               /\ pc' = [pc EXCEPT ![p] = AfterGet(call[p].op)]
               /\ UNCHANGED reply
          ELSE /\ GetFailed(p, "invalid database")
               /\ loc' = [loc EXCEPT ![p].closedBefore = dbId.v \in closedH]
    /\ UNCHANGED <<databases, databasePaths, databaseId, mutex, engines, store,
                   call, ncalls, nopens, opens, closedH>>

\* the type assertion and the lookup in p.databases, and the deferred Unlock
getDatabase_lookup(p) ==
    /\ pc[p] = "get_lookup"
    /\ Unlock(p)
    /\ LET dbId == call[p].id
       IN IF dbId.k # "int32"
          THEN GetFailed(p, "Invaid db id") /\ UNCHANGED loc
          ELSE IF dbId.v \in DOMAIN databases
          THEN /\ loc' = [loc EXCEPT ![p].id = dbId.v,
                                     ![p].db = databases[dbId.v],
                                     ![p].closedBefore = dbId.v \in closedH]
               /\ pc' = [pc EXCEPT ![p] = AfterGet(call[p].op)]
               /\ UNCHANGED reply
          ELSE /\ GetFailed(p, "invalid database")
               /\ loc' = [loc EXCEPT ![p].closedBefore = dbId.v \in closedH]
    /\ UNCHANGED <<databases, databasePaths, databaseId, engines, store, call,
                   ncalls, nopens, opens, closedH>>

\* ----------------------------------------------------- handleCloseDatabase
\* err = db.Close()
handleCloseDatabase_close(p) ==
    /\ pc[p] = "close_db"
    /\ \E err \in {NoErr, "close failed"} :
          loc' = [loc EXCEPT ![p].err = err]
    /\ engines' = [engines EXCEPT ![loc[p].db].closed = TRUE]
    /\ pc' = [pc EXCEPT ![p] = "close_lock"]
    /\ UNCHANGED <<databases, databasePaths, databaseId, mutex, store, call,
                   reply, ncalls, nopens, opens, closedH>>

\* p.Lock()
handleCloseDatabase_lock(p) ==
    /\ pc[p] = "close_lock"
    /\ Lock(p)
    /\ pc' = [pc EXCEPT ![p] = "close_del_path"]
    /\ UNCHANGED <<databases, databasePaths, databaseId, engines, store, call,
                   loc, reply, ncalls, nopens, opens, closedH>>

\* mutant: the close leaves the entry in p.databasePaths
Mut_handleCloseDatabase_delPath(p) ==
    /\ pc[p] = "close_del_path"
    /\ pc' = [pc EXCEPT ![p] = "close_del_db"]
    /\ UNCHANGED <<databases, databasePaths, databaseId, mutex, engines, store,
                   call, loc, reply, ncalls, nopens, opens, closedH>>

\* delete(p.databasePaths, databaseId)
handleCloseDatabase_delPath(p) ==
    /\ pc[p] = "close_del_path"
    /\ databasePaths' = MapDelete(databasePaths, loc[p].id)
    /\ pc' = [pc EXCEPT ![p] = "close_del_db"]
    /\ UNCHANGED <<databases, databaseId, mutex, engines, store, call, loc,
                   reply, ncalls, nopens, opens, closedH>>

\* mutant: the close leaves the entry in p.databases
Mut_handleCloseDatabase_delDb(p) ==
    /\ pc[p] = "close_del_db"
    /\ Return(p, Nil, loc[p].err)
    /\ Unlock(p)
    /\ closedH' = closedH \cup {loc[p].id}
    /\ UNCHANGED <<databases, databasePaths, databaseId, engines, store, call,
                   loc, ncalls, nopens, opens>>

\* delete(p.databases, databaseId), the reply and the deferred Unlock
handleCloseDatabase_delDb(p) ==
    /\ pc[p] = "close_del_db"
    /\ databases' = MapDelete(databases, loc[p].id)
    /\ Return(p, Nil, loc[p].err)
    /\ Unlock(p)
    /\ closedH' = closedH \cup {loc[p].id}
    /\ UNCHANGED <<databasePaths, databaseId, engines, store, call, loc,
                   ncalls, nopens, opens>>

\* ------------------------------------------------------------ getSqlCommand
\* mutant: the arguments of the request are dropped
Mut_SqlCommand(sqlStr, xargs, err) == [sqlStr |-> sqlStr, xargs |-> <<>>, err |-> err]

SqlCommand(sqlStr, xargs, err) == [sqlStr |-> sqlStr, xargs |-> xargs, err |-> err]

\* mutant: a missing or empty PARAM_SQL is passed on as a statement
Mut_getSqlCommand(arguments) ==
    SqlCommand(IF "sql" \in arguments.keys THEN arguments.sql ELSE "", <<>>, NoErr)

\* arguments is a request or one operation of a batch
getSqlCommand(arguments) ==
    IF "sql" \notin arguments.keys THEN SqlCommand("", <<>>, "SQL is not set")
    ELSE IF arguments.sql = "" THEN SqlCommand("", <<>>, "SQL is empty")
    ELSE SqlCommand(arguments.sql,
                    IF "arguments" \in arguments.keys
                       /\ arguments.arguments.k # "null"
                       /\ arguments.arguments.k = "list"
                    THEN arguments.arguments.items ELSE <<>>,
                    NoErr)

\* the *sql.Rows of the call: db.Query answers an open one; it is closed by
\* rows.Close(), or by rows.Next() when that answers false
RowsOpened(l) == [l EXCEPT !.openRows = @ + 1]

RowsExhausted(l) == [l EXCEPT !.openRows = @ - 1]

\* ------------------------------------------- handleInsert, Update, Execute
\* history kept with the locals: what the engine answered during this call
Noted(l, idx, err, value) ==
    [l EXCEPT !.executed = Append(@, idx),
              !.engineErrs = IF err # NoErr THEN Append(@, err) ELSE @,
              !.results = IF err = NoErr THEN Append(@, [result |-> value]) ELSE @]

FilePut(db, file) == [store EXCEPT ![FileOf(engines[db].path)] = file]

\* strings.Contains(err.Error(), "already exists")
ContainsAlreadyExists(msg) == msg \in {"table t already exists"}

\* what handleExecute returns after db.Exec answered err
handleExecute_result(p, err) ==
    IF err # NoErr /\ ~ContainsAlreadyExists(err)
    THEN Return(p, Nil, err)
    ELSE Return(p, Nil, NoErr)

\* what handleInsert returns after db.Exec answered r
handleInsert_result(p, r) ==
    IF r.err # NoErr THEN Return(p, Nil, r.err)
    ELSE Return(p, IntReply(r.lastInsertId), NoErr)

\* what handleUpdate returns after db.Exec answered r
handleUpdate_result(p, r) ==
    IF r.err # NoErr THEN Return(p, IntReply(0), r.err)
    ELSE Return(p, IntReply(r.rowsAffected), NoErr)

\* getSqlCommand and db.Exec of handleInsert, handleUpdate and handleExecute
ExecHandler(p, method) ==
    /\ LET cmd == getSqlCommand(call[p])
           r == Exec(loc[p].db, cmd.sqlStr, cmd.xargs)
       IN IF cmd.err # NoErr
          THEN Return(p, Nil, cmd.err) /\ UNCHANGED <<store, loc>>
          ELSE /\ store' = FilePut(loc[p].db, r.file)
               /\ loc' = [loc EXCEPT ![p] = Noted(@, 1, r.err, Nil)]
               /\ CASE method = METHOD_INSERT -> handleInsert_result(p, r)
                    [] method = METHOD_UPDATE -> handleUpdate_result(p, r)
                    [] OTHER -> handleExecute_result(p, r.err)
    /\ UNCHANGED <<databases, databasePaths, databaseId, mutex, engines, call,
                   ncalls, nopens, opens, closedH>>

handleInsert(p) ==
    /\ pc[p] = METHOD_INSERT
    /\ ExecHandler(p, METHOD_INSERT)

handleUpdate(p) ==
    /\ pc[p] = METHOD_UPDATE
    /\ ExecHandler(p, METHOD_UPDATE)

handleExecute(p) ==
    /\ pc[p] = METHOD_EXECUTE
    /\ ExecHandler(p, METHOD_EXECUTE)

\* -------------------------------------------------------------- handleQuery
\* mutant: a []byte value is passed on as it is
Mut_Coerce(val) == val

\* the switch on the scanned value: a []byte becomes a string
Coerce(val) == IF val.t = "blob" THEN SqlValue("text", val.v) ELSE val

\* the rows loop over the first n rows of the cursor; icols is cols
Marshal(columns, rows, n) ==
    ResultSet(columns,
              [i \in 1..n |-> [k \in 1..Len(columns) |-> Coerce(rows[i][k])]])

\* getSqlCommand, db.Query, rows.Columns and the rows.Next loop.  rows.Next
\* answers false at the end of the rows or at an error of the engine; n is the
\* number of rows it delivered.
handleQuery(p) ==
    /\ pc[p] = METHOD_QUERY
    /\ LET cmd == getSqlCommand(call[p])
           q == Query(loc[p].db, cmd.sqlStr, cmd.xargs)
       IN IF cmd.err # NoErr
          THEN Return(p, Nil, cmd.err) /\ UNCHANGED loc
          ELSE IF q.err # NoErr
          THEN /\ Return(p, Nil, q.err)
               /\ loc' = [loc EXCEPT ![p] = Noted(@, 1, q.err, Nil)]
          ELSE \E n \in 0..Len(q.rows) :
                  /\ Return(p, Marshal(q.columns, q.rows, n), NoErr)
                  /\ loc' = [loc EXCEPT ![p] =
                               [RowsExhausted(RowsOpened(
                                   Noted(@, 1, IF n < Len(q.rows) THEN "disk I/O error"
                                                                  ELSE NoErr, Nil)))
                                  EXCEPT !.cursor = SubSeq(q.rows, 1, n)]]
    /\ UNCHANGED <<databases, databasePaths, databaseId, mutex, engines, store,
                   call, ncalls, nopens, opens, closedH>>

\* -------------------------------------------------------------- handleBatch
\* the checks of arguments and of args[PARAM_OPERATIONS]
handleBatch_args(p) ==
    /\ pc[p] = "batch_args"
    /\ IF "operations" \notin call[p].keys
       THEN Return(p, Nil, "invalid operation") /\ UNCHANGED loc
       ELSE /\ loc' = [loc EXCEPT ![p].idx = 1, ![p].store0 = store]
            /\ pc' = [pc EXCEPT ![p] = "batch_op"]
            /\ UNCHANGED reply
    /\ UNCHANGED <<databases, databasePaths, databaseId, mutex, engines, store,
                   call, ncalls, nopens, opens, closedH>>

\* mutant: the batch answers the (empty) list of results it gathered
Mut_handleBatch_return(p) == Return(p, ListReply(<<>>), NoErr)

\* the return after the loop over operations
handleBatch_return(p) == Return(p, Nil, NoErr)

\* mutant: the loop goes on to the next operation after a failed one
Mut_handleBatch_next(p, err) == pc' = pc /\ UNCHANGED reply

\* the step of the loop after db.Exec or db.Query answered err for operation
\* loc[p].idx
handleBatch_next(p, err) ==
    IF err # NoErr
    THEN Return(p, Nil, err)
    ELSE pc' = pc /\ UNCHANGED reply

\* the value sqflite defines as the result of an operation
OperationValue(method, r, rows) ==
    CASE method = METHOD_INSERT -> IntReply(r.lastInsertId)
      [] method = METHOD_UPDATE -> IntReply(r.rowsAffected)
      [] method = METHOD_QUERY -> Marshal(Columns, rows, Len(rows))
      [] OTHER -> Nil

\* mutant: the loop skips the operation after the one it executed
Mut_handleBatch_op(p) ==
    /\ pc[p] = "batch_op"
    /\ IF loc[p].idx > Len(call[p].operations)
       THEN handleBatch_return(p) /\ UNCHANGED <<store, loc>>
       ELSE LET operate == call[p].operations[loc[p].idx]
                cmd == getSqlCommand(operate)
                r == IF operate.method = METHOD_QUERY
                     THEN Query(loc[p].db, cmd.sqlStr, cmd.xargs)
                     ELSE Exec(loc[p].db, cmd.sqlStr, cmd.xargs)
            IN IF "method" \notin operate.keys
               THEN Return(p, Nil, "empty method") /\ UNCHANGED <<store, loc>>
               ELSE IF cmd.err # NoErr
               THEN Return(p, Nil, cmd.err) /\ UNCHANGED <<store, loc>>
               ELSE IF operate.method \notin {METHOD_UPDATE, METHOD_INSERT,
                                              METHOD_EXECUTE, METHOD_QUERY}
               THEN Return(p, Nil, "Invalid batch param")
                    /\ UNCHANGED <<store, loc>>
               ELSE /\ store' = FilePut(loc[p].db, r.file)
                    /\ loc' = [loc EXCEPT ![p] =
                                 [(IF operate.method = METHOD_QUERY /\ r.err = NoErr
                                   THEN RowsOpened(
                                          Noted(@, @.idx, r.err,
                                                OperationValue(operate.method, r,
                                                               Cursor(r.file))))
                                   ELSE Noted(@, @.idx, r.err,
                                              OperationValue(operate.method, r,
                                                             Cursor(r.file))))
                                    EXCEPT !.idx = @ + 2]]
                    /\ handleBatch_next(p, r.err)
    /\ UNCHANGED <<databases, databasePaths, databaseId, mutex, engines, call,
                   ncalls, nopens, opens, closedH>>

\* one turn of the loop over operations
handleBatch_op(p) ==
    /\ pc[p] = "batch_op"
    /\ IF loc[p].idx > Len(call[p].operations)
       THEN handleBatch_return(p) /\ UNCHANGED <<store, loc>>
       ELSE LET operate == call[p].operations[loc[p].idx]
                cmd == getSqlCommand(operate)
                r == IF operate.method = METHOD_QUERY
                     THEN Query(loc[p].db, cmd.sqlStr, cmd.xargs)
                     ELSE Exec(loc[p].db, cmd.sqlStr, cmd.xargs)
            IN IF "method" \notin operate.keys
               THEN Return(p, Nil, "empty method") /\ UNCHANGED <<store, loc>>
               ELSE IF cmd.err # NoErr
               THEN Return(p, Nil, cmd.err) /\ UNCHANGED <<store, loc>>
               ELSE IF operate.method \notin {METHOD_UPDATE, METHOD_INSERT,
                                              METHOD_EXECUTE, METHOD_QUERY}
               THEN Return(p, Nil, "Invalid batch param")
                    /\ UNCHANGED <<store, loc>>
               ELSE /\ store' = FilePut(loc[p].db, r.file)
                    /\ loc' = [loc EXCEPT ![p] =
                                 [(IF operate.method = METHOD_QUERY /\ r.err = NoErr
                                   THEN RowsOpened(
                                          Noted(@, @.idx, r.err,
                                                OperationValue(operate.method, r,
                                                               Cursor(r.file))))
                                   ELSE Noted(@, @.idx, r.err,
                                              OperationValue(operate.method, r,
                                                             Cursor(r.file))))
                                    EXCEPT !.idx = @ + 1]]
                    /\ handleBatch_next(p, r.err)
    /\ UNCHANGED <<databases, databasePaths, databaseId, mutex, engines, call,
                   ncalls, nopens, opens, closedH>>

\* ------------------------------------------------------------ specification
Init ==
    /\ databases = EmptyMap
    /\ databasePaths = EmptyMap
    /\ databaseId = 0
    /\ mutex = 0
    /\ engines = <<>>
    /\ store = [f \in Files |-> EmptyFile]
    /\ pc = [p \in Procs |-> "idle"]
    /\ call = [p \in Procs |-> NoRequest]
    /\ loc = [p \in Procs |-> LocInit]
    /\ reply = [p \in Procs |-> NoReply]
    /\ ncalls = 0
    /\ nopens = 0
    /\ opens = <<>>
    /\ closedH = {}

\* the requests of the concurrent specification
Requests ==
    OpenRequests({PathA, PathB, MEMORY_DATABASE_PATH})
    \cup CloseRequests({IdInt32(n) : n \in 1..(MaxOpens - 1)})
    \cup StatementRequests({<<METHOD_EXECUTE, "CREATE">>, <<METHOD_INSERT, "INSERT">>,
                            <<METHOD_UPDATE, "UPDATE">>, <<METHOD_QUERY, "SELECT">>},
                           {IdInt32(1)}, {ArgNull})
    \cup BatchRequests({<<Operation(METHOD_EXECUTE, "CREATE"),
                           Operation(METHOD_INSERT, "INSERT")>>}, {IdInt32(1)})

Next ==
    \E p \in Procs :
        \/ Invoke(p, Requests)
        \/ handleOpenDatabase_args(p)
        \/ getDatabaseByPath_lock(p)
        \/ getDatabaseByPath_scan(p)
        \/ handleOpenDatabase_sqlOpen(p)
        \/ handleOpenDatabase_lock(p)
        \/ handleOpenDatabase_inc(p)
        \/ handleOpenDatabase_putDb(p)
        \/ handleOpenDatabase_putPath(p)
        \/ getDatabase_enter(p)
        \/ getDatabase_lookup(p)
        \/ handleCloseDatabase_close(p)
        \/ handleCloseDatabase_lock(p)
        \/ handleCloseDatabase_delPath(p)
        \/ handleCloseDatabase_delDb(p)
        \/ handleInsert(p)
        \/ handleUpdate(p)
        \/ handleExecute(p)
        \/ handleQuery(p)
        \/ handleBatch_args(p)
        \/ handleBatch_op(p)

Spec == Init /\ [][Next]_vars

\* the steps of the handler that runs on goroutine p; the Go scheduler runs
\* every goroutine that can take a step, and a call into the engine returns
Step(p) ==
    \/ handleOpenDatabase_args(p)
    \/ getDatabaseByPath_lock(p)
    \/ getDatabaseByPath_scan(p)
    \/ handleOpenDatabase_sqlOpen(p)
    \/ handleOpenDatabase_lock(p)
    \/ handleOpenDatabase_inc(p)
    \/ handleOpenDatabase_putDb(p)
    \/ handleOpenDatabase_putPath(p)
    \/ getDatabase_enter(p)
    \/ getDatabase_lookup(p)
    \/ handleCloseDatabase_close(p)
    \/ handleCloseDatabase_lock(p)
    \/ handleCloseDatabase_delPath(p)
    \/ handleCloseDatabase_delDb(p)
    \/ handleInsert(p)
    \/ handleUpdate(p)
    \/ handleExecute(p)
    \/ handleQuery(p)
    \/ handleBatch_args(p)
    \/ handleBatch_op(p)

\* the requests of the fair specification: every method, on one path and one
\* handle
LiveRequests ==
    OpenRequests({PathA})
    \cup CloseRequests({IdInt32(1)})
    \cup StatementRequests({<<METHOD_EXECUTE, "CREATE">>, <<METHOD_INSERT, "INSERT">>,
                            <<METHOD_UPDATE, "UPDATE">>, <<METHOD_QUERY, "SELECT">>},
                           {IdInt32(1)}, {ArgNull})
    \cup {r \in BatchRequests({<<Operation(METHOD_EXECUTE, "CREATE"),
                                  Operation(METHOD_QUERY, "SELECT")>>}, {IdInt32(1)}) :
             ~r.noResult /\ ~r.continueOnError}

NextLive == \E p \in Procs : Invoke(p, LiveRequests) \/ Step(p)

SpecLive == Init /\ [][NextLive]_vars /\ \A p \in Procs : WF_vars(Step(p))

\* the requests of the sequential specification: one invocation at a time,
\* every statement and every batch over OpSet
SeqProcs == {1}

SeqRequests ==
    OpenRequests(Paths)
    \cup CloseRequests({IdInt32(1), IdOther}) \cup {CloseNoId}
    \cup StatementRequests(Statements, {IdInt32(1)},
                           {ArgList(<<Int42>>), ArgNull, ArgOther})
    \cup BatchRequests(Batches \cup BadSqlBatches \cup ValueBatches, {IdInt32(1)})

NextSeq ==
    \E p \in SeqProcs :
        \/ Invoke(p, SeqRequests)
        \/ handleOpenDatabase_args(p)
        \/ getDatabaseByPath_lock(p)
        \/ getDatabaseByPath_scan(p)
        \/ handleOpenDatabase_sqlOpen(p)
        \/ handleOpenDatabase_lock(p)
        \/ handleOpenDatabase_inc(p)
        \/ handleOpenDatabase_putDb(p)
        \/ handleOpenDatabase_putPath(p)
        \/ getDatabase_enter(p)
        \/ getDatabase_lookup(p)
        \/ handleCloseDatabase_close(p)
        \/ handleCloseDatabase_lock(p)
        \/ handleCloseDatabase_delPath(p)
        \/ handleCloseDatabase_delDb(p)
        \/ handleInsert(p)
        \/ handleUpdate(p)
        \/ handleExecute(p)
        \/ handleQuery(p)
        \/ handleBatch_args(p)
        \/ handleBatch_op(p)

SpecSeq == Init /\ [][NextSeq]_vars

\* ------------------------------------------------ getSqlCommand on its own
\* the argument maps getSqlCommand is applied to: PARAM_SQL absent, empty or
\* a statement; PARAM_SQL_ARGUMENTS absent, nil, of another shape or a list
TranslateRequests ==
    {[NoRequest EXCEPT !.op = "getSqlCommand", !.keys = ks, !.sql = s,
                       !.arguments = a] :
        ks \in SUBSET {"sql", "arguments"},
        s \in {"", "CREATE", "INSERT", "SELECT"},
        a \in {ArgNull, ArgOther}
              \cup {ArgList(items) : items \in SeqsUpTo({Int42, NullV, Blob}, MaxArgs)}}

\* what getSqlCommand returned, as the reply of the call
CommandReply(cmd) == [kind |-> "command", sqlStr |-> cmd.sqlStr, xargs |-> cmd.xargs]

InitTranslate ==
    /\ databases = EmptyMap
    /\ databasePaths = EmptyMap
    /\ databaseId = 0
    /\ mutex = 0
    /\ engines = <<>>
    /\ store = [f \in Files |-> EmptyFile]
    /\ pc = [p \in Procs |-> IF p \in SeqProcs THEN "getSqlCommand" ELSE "idle"]
    /\ \E r \in TranslateRequests :
          call = [p \in Procs |-> IF p \in SeqProcs THEN r ELSE NoRequest]
    /\ loc = [p \in Procs |-> LocInit]
    /\ reply = [p \in Procs |-> NoReply]
    /\ ncalls = 0
    /\ nopens = 0
    /\ opens = <<>>
    /\ closedH = {}

\* one call of getSqlCommand(arguments)
getSqlCommand_call(p) ==
    /\ pc[p] = "getSqlCommand"
    /\ LET cmd == getSqlCommand(call[p])
       IN Return(p, CommandReply(cmd), cmd.err)
    /\ UNCHANGED <<databases, databasePaths, databaseId, mutex, engines, store,
                   call, loc, ncalls, nopens, opens, closedH>>

NextTranslate == \E p \in SeqProcs : getSqlCommand_call(p)

SpecTranslate == InitTranslate /\ [][NextTranslate]_vars

\* ------------------------------------------- the older variant of the plugin
\* type SqflitePlugin of the older variant: databases map[int]*xorm.Engine and
\* databaseId int; databasePaths does not exist and stays empty.
IdInt(n) == [k |-> "int", v |-> n]

V1_Entry(op) ==
    CASE op = METHOD_OPEN_DATABASE -> "v1_open_args"
      [] op = METHOD_CLOSE_DATABASE -> "v1_getDatabase"
      [] OTHER -> "v1_path"

V1_Invoke(p, requests) ==
    /\ pc[p] \in {"idle", "done"}
    /\ \E r \in requests : Begin(p, r, V1_Entry(r.op))

\* the argument checks and xorm.NewEngine
V1_handleOpenDatabase_args(p) ==
    /\ pc[p] = "v1_open_args"
    /\ IF ArgPath(call[p]) = <<>>
       THEN Return(p, Nil, "invalid dbpath") /\ UNCHANGED <<engines, loc>>
       ELSE \E ok \in BOOLEAN :
               IF ok
               THEN /\ engines' = Append(engines, [path |-> ArgPath(call[p]),
                                                   closed |-> FALSE])
                    /\ loc' = [loc EXCEPT ![p].engine = Len(engines) + 1]
                    /\ pc' = [pc EXCEPT ![p] = "v1_open_lock"]
                    /\ UNCHANGED reply
               ELSE /\ Return(p, Nil, "open failed")
                    /\ UNCHANGED <<engines, loc>>
    /\ UNCHANGED <<databases, databasePaths, databaseId, mutex, store, call,
                   ncalls, nopens, opens, closedH>>

\* p.Lock()
V1_handleOpenDatabase_lock(p) ==
    /\ pc[p] = "v1_open_lock"
    /\ Lock(p)
    /\ pc' = [pc EXCEPT ![p] = "v1_open_inc"]
    /\ UNCHANGED <<databases, databasePaths, databaseId, engines, store, call,
                   loc, reply, ncalls, nopens, opens, closedH>>

\* p.databaseId++
V1_handleOpenDatabase_inc(p) ==
    /\ pc[p] = "v1_open_inc"
    /\ databaseId' = databaseId + 1
    /\ pc' = [pc EXCEPT ![p] = "v1_open_put"]
    /\ UNCHANGED <<databases, databasePaths, mutex, engines, store, call, loc,
                   reply, ncalls, nopens, opens, closedH>>

\* p.databases[p.databaseId] = engine
V1_handleOpenDatabase_put(p) ==
    /\ pc[p] = "v1_open_put"
    /\ databases' = MapPut(databases, databaseId, loc[p].engine)
    /\ loc' = [loc EXCEPT ![p].created = databaseId \notin DOMAIN databases]
    /\ pc' = [pc EXCEPT ![p] = "v1_open_unlock"]
    /\ UNCHANGED <<databasePaths, databaseId, mutex, engines, store, call,
                   reply, ncalls, nopens, opens, closedH>>

\* p.Unlock()
V1_handleOpenDatabase_unlock(p) ==
    /\ pc[p] = "v1_open_unlock"
    /\ Unlock(p)
    /\ pc' = [pc EXCEPT ![p] = "v1_open_return"]
    /\ UNCHANGED <<databases, databasePaths, databaseId, engines, store, call,
                   loc, reply, ncalls, nopens, opens, closedH>>

\* return p.databaseId, nil: the read of p.databaseId after the Unlock
V1_handleOpenDatabase_return(p) ==
    /\ pc[p] = "v1_open_return"
    /\ Return(p, IntReply(databaseId), NoErr)
    /\ opens' = Append(opens, OpenRecord(p, databaseId, FALSE))
    /\ UNCHANGED <<databases, databasePaths, databaseId, mutex, engines, store,
                   call, loc, ncalls, nopens, closedH>>

\* getDatabase of the older variant reads p.databases without the lock
V1_getDatabase(p) ==
    /\ pc[p] = "v1_getDatabase"
    /\ LET dbId == call[p].id
       IN IF dbId.k = "int" /\ dbId.v \in DOMAIN databases
          THEN /\ loc' = [loc EXCEPT ![p].id = dbId.v,
                                     ![p].db = databases[dbId.v],
                                     ![p].closedBefore = dbId.v \in closedH]
               /\ pc' = [pc EXCEPT ![p] = "v1_close_db"]
               /\ UNCHANGED reply
          ELSE Return(p, Nil, "invalid database") /\ UNCHANGED loc
    /\ UNCHANGED <<databases, databasePaths, databaseId, mutex, engines, store,
                   call, ncalls, nopens, opens, closedH>>

\* the read of the map in getDatabase while another goroutine writes the map:
\* the runtime may stop the program ("concurrent map read and map write")
V1_getDatabase_fatal(p) ==
    /\ pc[p] = "v1_getDatabase"
    /\ call[p].id.k = "int"
    /\ \E q \in Procs \ {p} : pc[q] = "v1_open_put"
    /\ pc' = [q \in Procs |-> "fatal"]
    /\ UNCHANGED <<databases, databasePaths, databaseId, mutex, engines, store,
                   call, loc, reply, ncalls, nopens, opens, closedH>>

\* err = db.Close() and the return; the entry stays in p.databases
V1_handleCloseDatabase_close(p) ==
    /\ pc[p] = "v1_close_db"
    /\ \E err \in {NoErr, "close failed"} : Return(p, Nil, err)
    /\ engines' = [engines EXCEPT ![loc[p].db].closed = TRUE]
    /\ closedH' = closedH \cup {loc[p].id}
    /\ UNCHANGED <<databases, databasePaths, databaseId, mutex, store, call,
                   loc, ncalls, nopens, opens>>

\* handleBatch, handleExecute, handleUpdate, handleQuery and the other
\* handlers of the older variant answer a directory path
V1_handlePath(p) ==
    /\ pc[p] = "v1_path"
    /\ Return(p, PathReply, NoErr)
    /\ UNCHANGED <<databases, databasePaths, databaseId, mutex, engines, store,
                   call, loc, ncalls, nopens, opens, closedH>>

V1_Requests ==
    OpenRequests({PathA, PathB, PathEmpty})
    \cup CloseRequests({IdInt(n) : n \in 1..MaxOpens} \cup {IdOther})
    \cup StatementRequests({<<METHOD_EXECUTE, "CREATE">>, <<METHOD_QUERY, "SELECT">>},
                           {IdInt(1)}, {ArgNull})

V1_Next ==
    \E p \in Procs :
        \/ V1_Invoke(p, V1_Requests)
        \/ V1_handleOpenDatabase_args(p)
        \/ V1_handleOpenDatabase_lock(p)
        \/ V1_handleOpenDatabase_inc(p)
        \/ V1_handleOpenDatabase_put(p)
        \/ V1_handleOpenDatabase_unlock(p)
        \/ V1_handleOpenDatabase_return(p)
        \/ V1_getDatabase(p)
        \/ V1_getDatabase_fatal(p)
        \/ V1_handleCloseDatabase_close(p)
        \/ V1_handlePath(p)

V1_Spec == Init /\ [][V1_Next]_vars

\* ------------------------------------------------------------------ claims
Finished(p, ops) == pc[p] = "done" /\ call[p].op \in ops

\* handles under a closeDatabase that is running or has returned
Closing ==
    closedH \cup {call[q].id.v : q \in {r \in Procs :
                                          /\ pc[r] \notin {"idle", "done"}
                                          /\ call[r].op = METHOD_CLOSE_DATABASE}}

\* every openDatabase so far, returned or running, asked for singleInstance
AllSingleInstance ==
    /\ \A i \in 1..Len(opens) : opens[i].singleInstance
    /\ \A p \in Procs :
          call[p].op = METHOD_OPEN_DATABASE => ArgSingleInstance(call[p])

\* C1: an openDatabase of a non-memory path with singleInstance=true that
\* follows a successful one of the same path, whose handle h is not closed,
\* answers {id: h, recovered: true}, opens no connection and stores no entry
\* (stated for the runs in which every openDatabase asks for singleInstance).
C1_Recovers ==
    \A p \in Procs :
        ( /\ AllSingleInstance
          /\ Finished(p, {METHOD_OPEN_DATABASE})
          /\ ArgSingleInstance(call[p])
          /\ ArgPath(call[p]) # MEMORY_DATABASE_PATH
          /\ reply[p].err = NoErr )
        => \A h \in loc[p].pre \ Closing :
              /\ reply[p].value = OpenReply(h, TRUE)
              /\ loc[p].engine = 0
              /\ ~loc[p].created

\* C2: when every openDatabase asks for singleInstance=true, the registry
\* holds at most one entry for each non-memory path, in every interleaving.
C2_OneEntryPerPath ==
    AllSingleInstance
    => \A h1, h2 \in DOMAIN databasePaths :
          ( /\ databasePaths[h1] = databasePaths[h2]
            /\ databasePaths[h1] # MEMORY_DATABASE_PATH ) => h1 = h2

\* C3: a getDatabase of a handle whose closeDatabase has returned fails with
\* "invalid database", so the insert, update, execute, query, batch or close
\* that called it returns that error.
C3_ClosedHandleInvalid ==
    \A p \in Procs :
        loc[p].closedBefore
        => pc[p] = "done" /\ reply[p].err = "invalid database"

C3_Witness ==
    \E p \in Procs :
        /\ loc[p].closedBefore
        /\ Finished(p, {METHOD_EXECUTE, METHOD_CLOSE_DATABASE, METHOD_BATCH})
        /\ reply[p].err = "invalid database"
        /\ call[p].id.v \notin DOMAIN databases

\* the handles the openDatabase calls answered with recovered=false, in the
\* order of their returns
NewHandles ==
    LET new == SelectSeq(opens, LAMBDA r : ~r.recovered)
    IN [i \in 1..Len(new) |-> new[i].id]

\* C4: the first new connection gets handle 1 and every later openDatabase
\* that is not recovered answers a handle greater than all answered before,
\* so no handle is answered twice, also when openDatabase calls overlap.
C4_HandlesGrow ==
    \A i \in 1..Len(NewHandles) :
        /\ i = 1 => NewHandles[i] = 1
        /\ \A j \in 1..(i - 1) : NewHandles[j] < NewHandles[i]

\* C5: every successful openDatabase with singleInstance=false answers
\* recovered=false and a handle no other such call answered, and stores a
\* new registry entry, also for a path that is open already.
C5_DistinctHandles ==
    \A i \in 1..Len(opens) :
        ~opens[i].singleInstance
        => /\ ~opens[i].recovered
           /\ opens[i].created
           /\ \A j \in 1..Len(opens) :
                 (j # i /\ ~opens[j].singleInstance) => opens[j].id # opens[i].id

C5_Witness ==
    \E i, j \in 1..Len(opens) :
        /\ i < j
        /\ ~opens[i].singleInstance /\ ~opens[j].singleInstance
        /\ opens[i].path = opens[j].path
        /\ opens[i].id # opens[j].id
        /\ {opens[i].id, opens[j].id} \subseteq DOMAIN databases
        /\ databasePaths[opens[i].id] = databasePaths[opens[j].id]

\* a batch that got its connection and has returned
BatchDone(p) == Finished(p, {METHOD_BATCH}) /\ loc[p].db # 0

\* C6: a batch with continueOnError=true in which an operation fails in the
\* engine still executes every operation, returns no error, and (unless
\* noResult) answers one result entry for each operation.
C6_ContinueOnError ==
    \A p \in Procs :
        (BatchDone(p) /\ call[p].continueOnError /\ loc[p].engineErrs # <<>>)
        => /\ reply[p].err = NoErr
           /\ Len(loc[p].executed) = Len(call[p].operations)
           /\ ~call[p].noResult
                 => /\ reply[p].value.kind = "list"
                    /\ Len(reply[p].value.items) = Len(call[p].operations)

RECURSIVE Persisted(_, _, _)
\* the database file after the first n operations of ops were applied to it
Persisted(file, ops, n) ==
    IF n = 0 THEN file
    ELSE LET cmd == getSqlCommand(ops[n])
         IN Statement(Persisted(file, ops, n - 1), cmd.sqlStr, cmd.xargs).file

BatchFile(p) == FileOf(engines[loc[p].db].path)

\* C7: a batch with continueOnError=false stops at the first operation that
\* fails in the engine: the operations up to it were executed in order and
\* none after it, the call returns that error and no value, and the file
\* holds what the operations before the failed one did to it.
C7_AbortsAtFirstFailure ==
    \A p \in SeqProcs :
        (BatchDone(p) /\ ~call[p].continueOnError /\ loc[p].engineErrs # <<>>)
        => LET k == Len(loc[p].executed)
           IN /\ loc[p].executed = [i \in 1..k |-> i]
              /\ Len(loc[p].engineErrs) = 1
              /\ loc[p].idx = k + 1
              /\ reply[p] = Reply(Nil, loc[p].engineErrs[1])
              /\ store[BatchFile(p)]
                   = Persisted(loc[p].store0[BatchFile(p)], call[p].operations, k - 1)

C7_Witness ==
    \E p \in SeqProcs :
        /\ BatchDone(p) /\ ~call[p].continueOnError
        /\ loc[p].engineErrs # <<>>
        /\ Len(loc[p].executed) = 2
        /\ Len(call[p].operations) = 3
        /\ reply[p].err # NoErr
        /\ store[BatchFile(p)] # loc[p].store0[BatchFile(p)]

\* C8: a batch with noResult=true answers no value, whether its operations
\* succeeded or failed.
C8_NoResult ==
    \A p \in Procs :
        (Finished(p, {METHOD_BATCH}) /\ call[p].noResult) => reply[p].value = Nil

C8_Witness ==
    \E p \in Procs :
        /\ BatchDone(p) /\ call[p].noResult
        /\ Len(call[p].operations) = 3
        /\ Len(loc[p].results) = 3
        /\ reply[p] = Reply(Nil, NoErr)

\* C9: a batch with noResult=false that returns no error answers the list of
\* {result: value} entries of its operations, in order.
C9_Results ==
    \A p \in Procs :
        (BatchDone(p) /\ ~call[p].noResult /\ reply[p].err = NoErr
            /\ loc[p].results # <<>>)
        => reply[p].value = ListReply(loc[p].results)

\* C10: an insert, update, execute or query during which the engine reported
\* a failure returns an error.
C10_FailureSurfaced ==
    \A p \in Procs :
        ( /\ Finished(p, {METHOD_INSERT, METHOD_UPDATE, METHOD_EXECUTE, METHOD_QUERY})
          /\ loc[p].engineErrs # <<>> )
        => reply[p].err # NoErr

\* the methods that resolve a handle with getDatabase
HandleMethods ==
    {METHOD_INSERT, METHOD_UPDATE, METHOD_EXECUTE, METHOD_QUERY, METHOD_BATCH,
     METHOD_CLOSE_DATABASE}

\* C11: an insert, update, execute, query, batch or close whose handle is not
\* a key of p.databases when getDatabase looks it up returns the error
\* "invalid database" and no value (0 for update), executes nothing on any
\* connection, and none of its steps changes the registry, the counter, the
\* connections or the files; for batch whatever continueOnError is.
C11_InvalidHandle ==
    [][\A p \in Procs :
          /\ ( /\ pc'[p] # pc[p]
               /\ pc'[p] \in {"getDatabase", "get_lookup"} )
             => UNCHANGED <<databases, databasePaths, databaseId, engines, store>>
          /\ ( /\ pc[p] = "get_lookup" /\ pc'[p] # pc[p]
               /\ call[p].op \in HandleMethods
               /\ call[p].id.k = "int32"
               /\ call[p].id.v \notin DOMAIN databases )
             => /\ pc'[p] = "done"
                /\ reply'[p].err = "invalid database"
                /\ reply'[p].value
                     = IF call[p].op = METHOD_UPDATE THEN IntReply(0) ELSE Nil
                /\ loc'[p].db = 0 /\ loc'[p].executed = <<>>
                /\ UNCHANGED <<databases, databasePaths, databaseId, engines,
                               store>>]_vars

C11_Witness ==
    \E p, q \in Procs :
        /\ Finished(p, {METHOD_BATCH}) /\ call[p].continueOnError
        /\ call[p].operations # <<>>
        /\ call[p].id.k = "int32"
        /\ reply[p] = Reply(Nil, "invalid database")
        /\ loc[p].db = 0 /\ loc[p].executed = <<>>
        /\ Finished(q, {METHOD_CLOSE_DATABASE})
        /\ call[q].id.k = "int32" /\ call[q].id.v \notin DOMAIN databases
        /\ reply[q] = Reply(Nil, "invalid database")
        /\ loc[q].db = 0
        /\ DOMAIN databases # {}

\* C12: a closeDatabase that got its connection from getDatabase has, when it
\* returns, removed the handle from the registry (connection and path),
\* whether db.Close() succeeded or failed.
C12_CloseRemoves ==
    \A p \in Procs :
        (Finished(p, {METHOD_CLOSE_DATABASE}) /\ loc[p].db # 0)
        => /\ loc[p].id \notin DOMAIN databases
           /\ loc[p].id \notin DOMAIN databasePaths

\* C13: an openDatabase of ":memory:" that the engine does not refuse
\* succeeds with recovered=false and stores a new entry under a new handle,
\* also with singleInstance=true and when ":memory:" was opened before.
C13_MemoryDistinct ==
    \A p \in Procs :
        ( /\ Finished(p, {METHOD_OPEN_DATABASE})
          /\ ArgPath(call[p]) = MEMORY_DATABASE_PATH
          /\ reply[p].err # "open failed" )
        => /\ reply[p].err = NoErr
           /\ reply[p].value.kind = "map"
           /\ ~reply[p].value.recovered
           /\ loc[p].created

\* the value the reply holds for a database value: nil for NULL, the string
\* of the same bytes for a []byte, the value itself otherwise
Mapped(val) ==
    CASE val.t = "null" -> NullV
      [] val.t = "blob" -> Text
      [] OTHER -> val

\* C14: a query that returns no error answers the columns of the cursor in
\* their order and one row for each row the cursor delivered, in the same
\* order, each value mapped by Mapped; when rows.Next met no error these are
\* exactly the rows of the table, in insertion order.
C14_QueryFaithful ==
    \A p \in SeqProcs :
        (Finished(p, {METHOD_QUERY}) /\ reply[p].err = NoErr)
        => LET res == reply[p].value
               cur == loc[p].cursor
               tbl == store[BatchFile(p)].rows
           IN /\ res.kind = "resultset"
              /\ res.columns = <<"v", "typeof(v)">>
              /\ Len(res.rows) = Len(cur)
              /\ \A i \in 1..Len(cur) :
                    /\ Len(res.rows[i]) = 2
                    /\ res.rows[i][1] = Mapped(cur[i][1])
                    /\ res.rows[i][2] = cur[i][2]
              /\ loc[p].engineErrs = <<>>
                    => /\ Len(res.rows) = Len(tbl)
                       /\ \A i \in 1..Len(tbl) :
                             res.rows[i][1] = Mapped(tbl[i])

C14_Witness ==
    \E p \in SeqProcs :
        /\ Finished(p, {METHOD_QUERY}) /\ reply[p].err = NoErr
        /\ loc[p].engineErrs = <<>>
        /\ store[BatchFile(p)].rows = <<Blob, NullV>>
        /\ reply[p].value.rows = << <<Text, SqlValue("text", "blob")>>,
                                    <<NullV, SqlValue("text", "null")>> >>

\* positions from which the next step of the handler is a call into the
\* engine: sql.Open, db.Close, db.Exec, db.Query
InEngine(p) ==
    pc[p] \in {"sql_open", "close_db", METHOD_INSERT, METHOD_UPDATE,
               METHOD_EXECUTE, METHOD_QUERY, "batch_op",
               "v1_open_args", "v1_close_db"}

\* positions from which the next step waits for the lock
AtLock(p) ==
    \/ pc[p] \in {"open_lock", "close_lock", "v1_open_lock"}
    \/ pc[p] = "getDatabase" /\ "id" \in call[p].keys
    \/ pc[p] = "getDatabaseByPath" /\ ArgPath(call[p]) # MEMORY_DATABASE_PATH

\* C15: an invocation that is about to call sql.Open, db.Close, db.Exec or
\* db.Query does not hold the lock, so the lock is never held across a call
\* into the engine; and whenever an invocation waits for the lock, its holder
\* is at a step on the maps and not in the engine.
C15_NoLockInEngine ==
    /\ \A p \in Procs : InEngine(p) => mutex # p
    /\ mutex # 0 => ~InEngine(mutex)

C15_Witness ==
    \E p, q \in Procs :
        /\ pc[p] = "batch_op" /\ loc[p].executed # <<>>
        /\ loc[p].idx <= Len(call[p].operations)
        /\ ~engines[loc[p].db].closed
        /\ mutex = q
        /\ \/ pc[q] = "open_put_db" /\ databaseId # loc[p].id
           \/ /\ pc[q] = "get_lookup" /\ call[q].op = METHOD_CLOSE_DATABASE
              /\ call[q].id.v # loc[p].id

\* positions from which the next step reads or writes p.databases,
\* p.databasePaths or p.databaseId
RegistryAccess(p) ==
    \/ pc[p] \in {"bypath_scan", "open_inc", "open_put_db", "open_put_path",
                   "get_lookup", "close_del_path", "close_del_db",
                   "v1_open_inc", "v1_open_put", "v1_open_return"}
    \/ pc[p] = "v1_getDatabase" /\ call[p].id.k = "int"

\* C16: an invocation whose next step reads or writes the maps or the counter
\* holds the lock, the read of the counter for the reply of openDatabase
\* included.
C16_AccessUnderLock ==
    \A p \in Procs : RegistryAccess(p) => mutex = p

\* C17: whenever the lock is free, p.databases and p.databasePaths have the
\* same keys, under every interleaving of openDatabase, closeDatabase and
\* getDatabase.
C17_MapsAgree ==
    mutex = 0 => DOMAIN databases = DOMAIN databasePaths

C17_Witness ==
    \E p, q \in Procs :
        /\ mutex = 0
        /\ pc[p] = "close_lock"
        /\ Finished(q, {METHOD_OPEN_DATABASE})
        /\ reply[q] = Reply(OpenReply(2, FALSE), NoErr)
        /\ DOMAIN databases = {1, 2} /\ DOMAIN databasePaths = {1, 2}

\* C18: no handle of the registry maps to a connection that db.Close() has
\* closed already, so getDatabase never returns a closed connection.
C18_NoClosedEntry ==
    \A h \in DOMAIN databases : ~engines[databases[h]].closed

\* C19: a batch executes its operations in list order, each at most once and
\* none skipped: the operations executed so far are 1..k, the loop stands at
\* operation k+1, and the file holds what operations 1..k did to it in that
\* order.
C19_InOrder ==
    \A p \in SeqProcs :
        ( /\ call[p].op = METHOD_BATCH /\ loc[p].db # 0
          /\ pc[p] \in {"batch_op", "done"} /\ loc[p].idx >= 1 )
        => LET k == Len(loc[p].executed)
           IN /\ loc[p].executed = [i \in 1..k |-> i]
              /\ k <= Len(call[p].operations)
              /\ loc[p].idx = k + 1
              /\ store[BatchFile(p)]
                   = Persisted(loc[p].store0[BatchFile(p)], call[p].operations, k)

C19_Witness ==
    \E p \in SeqProcs :
        /\ BatchDone(p)
        /\ call[p].operations = <<Operation(METHOD_EXECUTE, "CREATE"),
                                  OpInsert(Int42), OpInsert(Blob)>>
        /\ loc[p].executed = <<1, 2, 3>>
        /\ reply[p].err = NoErr
        /\ store[BatchFile(p)].rows = <<Int42, Blob>>

\* an operation without PARAM_SQL or with an empty one
Untranslatable(operate) == "sql" \notin operate.keys \/ operate.sql = ""

\* the first operation of ops without SQL text
FirstUntranslatable(ops) ==
    CHOOSE n \in 1..Len(ops) :
        /\ Untranslatable(ops[n])
        /\ \A i \in 1..(n - 1) : ~Untranslatable(ops[i])

\* C20: a batch that reaches an operation without SQL text (missing or empty),
\* no operation before it having failed in the engine, returns the error of
\* the translation and no value, for both values of continueOnError, and
\* executes neither that operation nor a later one.
C20_TranslationFatal ==
    \A p \in SeqProcs :
        ( /\ BatchDone(p)
          /\ \E j \in 1..Len(call[p].operations) :
                 Untranslatable(call[p].operations[j])
          /\ \/ loc[p].engineErrs = <<>>
             \/ Len(loc[p].executed) >= FirstUntranslatable(call[p].operations) )
        => LET ops == call[p].operations
               j == FirstUntranslatable(ops)
           IN /\ reply[p] = Reply(Nil, IF "sql" \in ops[j].keys
                                       THEN "SQL is empty" ELSE "SQL is not set")
              /\ loc[p].executed = [i \in 1..(j - 1) |-> i]
              /\ store[BatchFile(p)]
                   = Persisted(loc[p].store0[BatchFile(p)], ops, j - 1)

C20_Witness ==
    \E p \in SeqProcs :
        /\ BatchDone(p) /\ call[p].continueOnError
        /\ call[p].operations = <<Operation(METHOD_EXECUTE, "CREATE"), OpNoSql,
                                  Operation(METHOD_INSERT, "INSERT")>>
        /\ loc[p].executed = <<1>>
        /\ reply[p] = Reply(Nil, "SQL is not set")
        /\ store[BatchFile(p)] = [tbl |-> TRUE, rows |-> <<>>]

\* C21: getSqlCommand answers "SQL is not set" when PARAM_SQL is absent and
\* "SQL is empty" when it is the empty string; otherwise it answers no error,
\* the SQL text unchanged, and as arguments the list under
\* PARAM_SQL_ARGUMENTS in its order when that is a list, the empty list when
\* it is absent, nil or of another shape.
C21_Translate ==
    \A p \in Procs :
        (pc[p] = "done" /\ call[p].op = "getSqlCommand")
        => LET r == call[p]
           IN IF "sql" \notin r.keys THEN reply[p].err = "SQL is not set"
              ELSE IF r.sql = "" THEN reply[p].err = "SQL is empty"
              ELSE /\ reply[p].err = NoErr
                   /\ reply[p].value.sqlStr = r.sql
                   /\ reply[p].value.xargs
                        = IF "arguments" \in r.keys /\ r.arguments.k = "list"
                          THEN r.arguments.items ELSE <<>>

C21_Witness ==
    \E p \in Procs :
        /\ pc[p] = "done" /\ call[p].op = "getSqlCommand"
        /\ call[p].keys = {"sql", "arguments"}
        /\ call[p].arguments = ArgList(<<Blob, Int42>>)
        /\ reply[p] = Reply([kind |-> "command", sqlStr |-> "INSERT",
                              xargs |-> <<Blob, Int42>>], NoErr)

\* C22: a query call or a batch that returns no error has left no *sql.Rows
\* open: every cursor db.Query answered during the call was read to its end
\* or closed.
C22_NoOpenCursor ==
    \A p \in Procs :
        (Finished(p, {METHOD_QUERY, METHOD_BATCH}) /\ reply[p].err = NoErr)
        => loc[p].openRows = 0

Running(p) == pc[p] \notin {"idle", "done"}

\* C23: with every goroutine that can take a step scheduled (weak fairness)
\* and calls into the engine that return, every invocation that waits for the
\* lock gets it, every invocation returns, and an invocation that has
\* returned, with or without an error, does not hold the lock.
C23_NoDeadlock ==
    \A p \in Procs :
        /\ [](~Running(p) => mutex # p)
        /\ AtLock(p) ~> (mutex = p)
        /\ Running(p) ~> (pc[p] = "done")

C23_Witness ==
    \E p, q \in Procs :
        /\ p # q
        /\ AtLock(p) /\ mutex = q
        /\ pc[p] = "close_lock" /\ pc[q] = "open_put_path"
        /\ loc[p].err # NoErr
====
